---- MODULE Spec2Model ----
(***************************************************************************)
(* State-machine model of setup-vm.py: the Runner (main), the two frontend *)
(* variants (SimpleCLIFrontend, CursesFrontend), the scoped step tracker   *)
(* (run_step), the curses selection screen and the background repaint      *)
(* loop (_draw_loop).  Step functions are opaque: a step function is a     *)
(* sequence of run_step scopes and of code outside any scope, each of      *)
(* which may return, raise or be interrupted.                              *)
(***************************************************************************)
EXTENDS Integers, Sequences, FiniteSets

\* ---------------------------------------------------------------- bounds
\* number of candidate step functions in main's all_steps
NumSteps == 2
\* cap on the number of run_step scopes entered in one run
MaxScopes == 3
\* screen heights returned by getmaxyx range over 0..MaxY
MaxY == 5
\* number of candidate steps shown by the selection screen in SpecSel
SelSteps == 5

VARIABLES
    args,        \* parsed command line and tty capability of stdin/stdout
    pc,          \* position of the main control flow
    frontend,    \* "none", "simple" or "curses": the frontend get_frontend yielded
    interactive_step_selection, \* SimpleCLIFrontend.interactive_step_selection
    term,        \* terminal state driven by the curses calls of get_frontend
    current_step, offset, enabled,  \* locals of the curses select_steps
    c,           \* the key select_steps read last with getch()
    max_y,       \* the screen height select_steps read last with getmaxyx()
    toggled,     \* per candidate: toggled an odd number of times so far
    ask,         \* index of the step SimpleCLIFrontend.select_steps is asking about
    answer,      \* what input() returned to _ask_step, not yet decided upon
    all_steps,   \* main's all_steps: the candidates, then the chosen list
    idx,         \* position of main's for loop in all_steps (1-based)
    nscopes,     \* run_step scopes entered so far
    calls,       \* step functions invoked so far, in order
    lines,       \* CursesFrontend.lines, the StatusLog
    running,     \* CursesFrontend.running
    threads,     \* number of _draw_loop threads started
    draw_pc,     \* position of the _draw_loop thread
    painted,     \* what the last draw_steps_progress painted
    late_paint,  \* a repaint happened after curses.endwin()
    ERROR_TEXT,  \* the global ERROR_TEXT
    exc,         \* the exception propagating through the main flow
    stdout,      \* what was printed, in order
    exit_code    \* process exit status, -1 while the process runs

vars == <<args, pc, frontend, interactive_step_selection, term, current_step,
          offset, enabled, c, max_y, toggled, ask, answer, all_steps, idx, nscopes, calls, lines,
          running, threads, draw_pc, painted, late_paint, ERROR_TEXT, exc,
          stdout, exit_code>>

keyvars == <<c, max_y, toggled>>
selvars == <<current_step, offset, enabled, keyvars, ask, answer>>
drawvars == <<running, threads, draw_pc, painted, late_paint>>

\* ------------------------------------------------------------- text model
\* A text is a sequence of tokens: a report line "<glyph> <name>", a newline
\* or an error message.
Tok(t, g, n) == [t |-> t, g |-> g, n |-> n]
NL == Tok("nl", "", <<0, 0>>)
Msg(m) == Tok("msg", m, <<0, 0>>)

OK_CHAR == "OK_CHAR"
FAIL_CHAR == "FAIL_CHAR"
SKIP_CHAR == "SKIP_CHAR"
RUNNING_CHAR == "RUNNING_CHAR"

SUCCESS == "SUCCESS"
FAILURE == "FAILURE"
SKIPPED == "SKIPPED"
RUNNING == "RUNNING"
StepState == {SUCCESS, FAILURE, SKIPPED, RUNNING}

icon(state) ==
    CASE state = SUCCESS -> OK_CHAR
      [] state = FAILURE -> FAIL_CHAR
      [] state = SKIPPED -> SKIP_CHAR
      [] state = RUNNING -> RUNNING_CHAR

RECURSIVE stringify_lines(_)
stringify_lines(ls) ==
    IF ls = <<>> THEN <<>>
    ELSE IF Len(ls) = 1 THEN <<Tok("line", icon(ls[1].state), ls[1].name)>>
    ELSE <<Tok("line", icon(ls[1].state), ls[1].name), NL>> \o stringify_lines(Tail(ls))

\* ------------------------------------------------------------- exceptions
Error(cls, str, has_stderr, stderr) ==
    [cls |-> cls, str |-> str, has_stderr |-> has_stderr, stderr |-> stderr]
NoError == Error("", <<>>, FALSE, <<>>)
\* raise StepFailure(): every raise site passes no message
StepFailureExc == Error("StepFailure", <<>>, FALSE, <<>>)
\* any other Exception with a message, e.g. read_text on a missing file
OSErrorExc == Error("OSError", <<Msg("oserror")>>, FALSE, <<>>)
\* subprocess.run(check=True, capture_output=True): stderr is bytes, maybe empty
CapturedProcessError(text) == Error("CalledProcessError", <<Msg("exit_status")>>, TRUE, text)
\* subprocess.run(check=True, capture_output=False): stderr is None
UncapturedProcessError == Error("CalledProcessError", <<Msg("exit_status")>>, FALSE, <<>>)
\* what e.stderr.decode raises on None
AttributeErrorExc == Error("AttributeError", <<Msg("attribute_error")>>, FALSE, <<>>)
CursesErrorExc == Error("curses.error", <<Msg("curses_error")>>, FALSE, <<>>)

StringifyRaises(e) == e.cls = "CalledProcessError" /\ ~e.has_stderr
stringify_exception(e) == IF e.cls = "CalledProcessError" THEN e.stderr ELSE e.str

Exc(type, code, e) == [type |-> type, code |-> code, e |-> e]
NoExc == Exc("none", 0, NoError)
KeyboardInterrupt == Exc("KeyboardInterrupt", 0, NoError)
SystemExit(code) == Exc("SystemExit", code, NoError)
Raised(e) == Exc("Exception", 0, e)

NoneText == [isNone |-> TRUE, text |-> <<>>]
Text(t) == [isNone |-> FALSE, text |-> t]
\* Python truthiness of ERROR_TEXT
Truthy(t) == ~t.isNone /\ t.text # <<>>

Emit(what, text) == Append(stdout, [what |-> what, text |-> text])

Steps == 1 .. NumSteps
AllSteps == [i \in 1 .. NumSteps |-> i]

\* the value of _ask_step's local `answer`: unbound until input() returns
NoAnswer == [read |-> FALSE, text |-> ""]
Answer(a) == [read |-> TRUE, text |-> a]

\* no key read yet
NoKey == "none"

\* ------------------------------------------------------------------- Init
InitTerm == [stdscr |-> FALSE, keypad |-> FALSE, echo |-> TRUE, cbreak |-> FALSE,
             curses_mode |-> FALSE]

Init ==
    /\ args \in [fancy : BOOLEAN, unattended : BOOLEAN, verbose : BOOLEAN,
                 stdin_tty : BOOLEAN, stdout_tty : BOOLEAN]
    /\ pc = "Init"
    /\ frontend = "none"
    /\ interactive_step_selection = FALSE
    /\ term = InitTerm
    /\ current_step = 0
    /\ offset = 0
    /\ enabled = <<>>
    /\ c = NoKey
    /\ max_y = 0
    /\ toggled = <<>>
    /\ ask = 1
    /\ answer = NoAnswer
    /\ all_steps = AllSteps
    /\ idx = 1
    /\ nscopes = 0
    /\ calls = <<>>
    /\ lines = <<>>
    /\ running = FALSE
    /\ threads = 0
    /\ draw_pc = "none"
    /\ painted = <<>>
    /\ late_paint = FALSE
    /\ ERROR_TEXT = NoneText
    /\ exc = NoExc
    /\ stdout = <<>>
    /\ exit_code = -1

\* --------------------------------------------------------------- get_sudo
\* subprocess.run(["sudo", "true"], check=True) succeeds; the keep-alive
\* thread it starts shares no state with the rest.
GetSudo ==
    /\ pc = "Init"
    /\ pc' = "SudoAcquired"
    /\ UNCHANGED <<args, frontend, interactive_step_selection, term, selvars,
                   all_steps, idx, nscopes, calls, lines, drawvars, ERROR_TEXT,
                   exc, stdout, exit_code>>

\* sudo fails: CalledProcessError leaves main, outside its try statement
GetSudoFails ==
    /\ pc = "Init"
    /\ pc' = "Exited"
    /\ exit_code' = 1
    /\ exc' = Raised(UncapturedProcessError)
    /\ UNCHANGED <<args, frontend, interactive_step_selection, term, selvars,
                   all_steps, idx, nscopes, calls, lines, drawvars, ERROR_TEXT,
                   stdout>>

\* ----------------------------------------------------------- get_frontend
\* NeedsPlainUnattended without the test of args.unattended
NeedsPlainUnattended_IgnoreUnattended == ~args.stdout_tty \/ ~args.stdin_tty

\* NeedsPlainUnattended without the test of sys.stdin.isatty()
NeedsPlainUnattended_IgnoreStdin == args.unattended \/ ~args.stdout_tty

\* line 344: args.unattended or not sys.stdout.isatty() or not sys.stdin.isatty()
NeedsPlainUnattended == args.unattended \/ ~args.stdout_tty \/ ~args.stdin_tty

\* lines 344-350: the plain variant, with or without yes/no selection
GetFrontendSimple ==
    /\ pc = "SudoAcquired"
    /\ NeedsPlainUnattended \/ ~args.fancy
    /\ frontend' = "simple"
    /\ interactive_step_selection' = ~NeedsPlainUnattended
    /\ pc' = "Selecting"
    /\ UNCHANGED <<args, term, selvars, all_steps, idx, nscopes, calls, lines,
                   drawvars, ERROR_TEXT, exc, stdout, exit_code>>

\* --------------------------------------------------------- redraw_screen
Max(a, b) == IF a >= b THEN a ELSE b
Min(a, b) == IF a <= b THEN a ELSE b

\* steps[offset:offset_end] of line 142, as the 0-based indices it yields for
\* a list of n elements: a negative end counts from the end of the list
SliceIndices(n, from, to) ==
    LET lo == Min(from, n)
        hi == IF to < 0 THEN Max(to + n, 0) ELSE Min(to, n)
    IN  {k \in 0 .. n - 1 : lo <= k /\ k < hi}

\* redraw_screen without the test of line 145
redraw_screen_NoRowTest(h, n, flags, cur, off) ==
    [max_y |-> h,
     header |-> h > 0,
     rows |-> {[row |-> (k - Min(off, n)) + 2, step |-> k,
                selected |-> (k - Min(off, n)) = cur - off,
                enabled |-> flags[k + 1]] :
               k \in SliceIndices(n, off, off + h - 3)}]

\* lines 129-154: the rows redraw_screen addresses when getmaxyx gives height
\* h: "Select:" on row 0 if h > 0, and the i-th step of the slice on row i + 2
\* if h > i + 2
redraw_screen(h, n, flags, cur, off) ==
    [max_y |-> h,
     header |-> h > 0,
     rows |-> {[row |-> (k - Min(off, n)) + 2, step |-> k,
                selected |-> (k - Min(off, n)) = cur - off,
                enabled |-> flags[k + 1]] :
               k \in {k \in SliceIndices(n, off, off + h - 3) :
                         h > (k - Min(off, n)) + 2}}]

CursesTerm == [stdscr |-> TRUE, keypad |-> TRUE, echo |-> FALSE, cbreak |-> TRUE,
               curses_mode |-> TRUE]

\* lines 352-363: initscr, noecho, cbreak, keypad, CursesFrontend(stdscr);
\* select_steps then starts with its locals of lines 165-167
GetFrontendCurses ==
    /\ pc = "SudoAcquired"
    /\ ~NeedsPlainUnattended /\ args.fancy
    /\ frontend' = "curses"
    /\ term' = CursesTerm
    /\ current_step' = 0
    /\ offset' = 0
    /\ enabled' = [i \in 1 .. Len(all_steps) |-> TRUE]
    /\ toggled' = [i \in 1 .. Len(all_steps) |-> FALSE]
    /\ pc' = "Selecting"
    /\ UNCHANGED <<args, interactive_step_selection, c, max_y, ask, answer, all_steps, idx, nscopes,
                   calls, lines, drawvars, ERROR_TEXT, exc, stdout, exit_code>>

\* a curses call of lines 353-356 raises curses.error: at initscr (no stdscr
\* bound) or after it (stdscr bound, frontend not)
GetFrontendCursesFails ==
    /\ pc = "SudoAcquired"
    /\ ~NeedsPlainUnattended /\ args.fancy
    /\ \E got_stdscr \in BOOLEAN :
         term' = IF got_stdscr
                 THEN [term EXCEPT !.stdscr = TRUE, !.curses_mode = TRUE]
                 ELSE term
    /\ exc' = Raised(CursesErrorExc)
    /\ pc' = "FrontendFinally"
    /\ UNCHANGED <<args, frontend, interactive_step_selection, selvars, all_steps,
                   idx, nscopes, calls, lines, drawvars, ERROR_TEXT, stdout,
                   exit_code>>

\* where an exception (or the normal end of the with body) goes next: the
\* plain branches of get_frontend have no finally clause
Unwind == IF frontend = "simple" THEN "MainHandlers" ELSE "FrontendFinally"

\* ------------------------------------------------ SimpleCLIFrontend.select
\* line 85-86
SelectAll ==
    /\ pc = "Selecting" /\ frontend = "simple" /\ ~interactive_step_selection
    /\ pc' = "Executing"
    /\ UNCHANGED <<args, frontend, interactive_step_selection, term, selvars,
                   all_steps, idx, nscopes, calls, lines, drawvars, ERROR_TEXT,
                   exc, stdout, exit_code>>

Answers == {"", "y", "Y", "yes", "YES", "n", "N", "no", "No", "maybe"}
\* Lower that leaves the answer as typed
Lower_Identity(a) == a

\* answer.lower(), on the answers of Answers
Lower(a) ==
    CASE a \in {"y", "Y"} -> "y"
      [] a \in {"yes", "YES"} -> "yes"
      [] a \in {"n", "N"} -> "n"
      [] a \in {"no", "No"} -> "no"
      [] OTHER -> a

\* SelectFlags that ignores the flags and returns every step
SelectFlags_All(steps, flags) == steps

\* line 197 (and the list comprehension of line 88): the steps whose flag is set
SelectFlags(steps, flags) == SelectSeq(steps, LAMBDA s : flags[s])

\* line 76: input() returns what the operator typed for step number `ask`
AskInput ==
    /\ pc = "Selecting" /\ frontend = "simple" /\ interactive_step_selection
    /\ answer = NoAnswer
    /\ \E a \in Answers : answer' = Answer(a)
    /\ UNCHANGED <<args, pc, frontend, interactive_step_selection, term,
                   current_step, offset, enabled, keyvars, ask, all_steps, idx,
                   nscopes,
                   calls, lines, drawvars, ERROR_TEXT, exc, stdout, exit_code>>

\* lines 77-80 and 88: _ask_step returns True or False, or loops to ask the
\* same step again; the list comprehension asks the steps in order and keeps
\* those answered yes
AskStep ==
    /\ pc = "Selecting" /\ frontend = "simple" /\ interactive_step_selection
    /\ answer # NoAnswer
    /\ answer' = NoAnswer
    /\ IF Lower(answer.text) \in {"", "y", "yes"} \/ Lower(answer.text) \in {"n", "no"}
       THEN LET flags == Append(enabled, Lower(answer.text) \in {"", "y", "yes"})
            IN  IF ask = Len(all_steps)
                THEN /\ all_steps' = SelectFlags(all_steps, flags)
                     /\ pc' = "Executing"
                     /\ ask' = 1
                     /\ enabled' = <<>>
                ELSE /\ ask' = ask + 1
                     /\ enabled' = flags
                     /\ UNCHANGED <<all_steps, pc>>
       ELSE UNCHANGED <<enabled, ask, all_steps, pc>>
    /\ UNCHANGED <<args, frontend, interactive_step_selection, term, current_step,
                   offset, keyvars, idx, nscopes, calls, lines, drawvars,
                   ERROR_TEXT, exc, stdout, exit_code>>

\* lines 81-82: KeyboardInterrupt while input() waits becomes SystemExit(1)
AskInterrupt ==
    /\ pc = "Selecting" /\ frontend = "simple" /\ interactive_step_selection
    /\ answer = NoAnswer
    /\ exc' = SystemExit(1)
    /\ pc' = Unwind
    /\ UNCHANGED <<args, frontend, interactive_step_selection, term, selvars,
                   all_steps, idx, nscopes, calls, lines, drawvars, ERROR_TEXT,
                   stdout, exit_code>>

\* ------------------------------------------------- curses select_steps
\* lines 189-195, with h the height read at line 173
ScrollOffset(cur, off, n, h) ==
    LET o1 == IF cur - off >= h - 3 THEN off + 1 ELSE off
        o2 == IF cur < o1 THEN o1 - 1 ELSE o1
    IN  IF h - 3 > n - o2 THEN Max(0, n - h - 3) ELSE o2

\* KeyEffect with a cursor that wraps around at both ends
KeyEffect_Wrap(k, cur, n) ==
    CASE k = "KEY_DOWN" -> (cur + 1) % n
      [] k = "KEY_UP" -> (cur + n - 1) % n
      [] OTHER -> cur

\* lines 177-181: the cursor after key k
KeyEffect(k, cur, n) ==
    CASE k = "KEY_DOWN" -> Min(cur + 1, n - 1)
      [] k = "KEY_UP" -> Max(cur - 1, 0)
      [] OTHER -> cur

\* Toggle that switches the flag off whatever it was
Toggle_Off(flags, cur) == [flags EXCEPT ![cur + 1] = FALSE]

\* line 175: enabled[current_step] = not enabled[current_step]
Toggle(flags, cur) == [flags EXCEPT ![cur + 1] = ~@]

Keys == {"space", "KEY_DOWN", "KEY_UP", "other"}

\* lines 172-195: getch returns a key that keeps the loop going, getmaxyx
\* gives height h; the key is handled and the offset adjusted.  The
\* redraw_screen call of line 170 changes no state of the program.
KeyPress ==
    /\ pc = "Selecting" /\ frontend = "curses"
    /\ \E k \in Keys, h \in 0 .. MaxY :
         /\ c' = k
         /\ max_y' = h
         /\ enabled' = IF k = "space" THEN Toggle(enabled, current_step) ELSE enabled
         /\ toggled' = IF k = "space"
                       THEN [toggled EXCEPT ![current_step + 1] = ~@]
                       ELSE toggled
         /\ current_step' = KeyEffect(k, current_step, Len(all_steps))
         /\ offset' = ScrollOffset(current_step', offset, Len(all_steps), h)
    /\ UNCHANGED <<args, pc, frontend, interactive_step_selection, term, ask, answer,
                   all_steps, idx, nscopes, calls, lines, drawvars, ERROR_TEXT,
                   exc, stdout, exit_code>>

\* lines 172-173, 183-184, 197: confirm returns the enabled steps; the locals
\* die
KeyEnter ==
    /\ pc = "Selecting" /\ frontend = "curses"
    /\ all_steps' = SelectFlags(all_steps, enabled)
    /\ current_step' = 0
    /\ offset' = 0
    /\ enabled' = <<>>
    /\ c' = NoKey
    /\ max_y' = 0
    /\ toggled' = <<>>
    /\ pc' = "Executing"
    /\ UNCHANGED <<args, frontend, interactive_step_selection, term, ask, answer, idx,
                   nscopes, calls, lines, drawvars, ERROR_TEXT, exc, stdout,
                   exit_code>>

\* KeyQuit with exit(1) in place of exit(0)
KeyQuit_ExitOne ==
    /\ pc = "Selecting" /\ frontend = "curses"
    /\ exc' = SystemExit(1)
    /\ pc' = Unwind
    /\ UNCHANGED <<args, frontend, interactive_step_selection, term, selvars,
                   all_steps, idx, nscopes, calls, lines, drawvars, ERROR_TEXT,
                   stdout, exit_code>>

\* lines 186-187: exit(0) raises SystemExit(0)
KeyQuit ==
    /\ pc = "Selecting" /\ frontend = "curses"
    /\ exc' = SystemExit(0)
    /\ pc' = Unwind
    /\ UNCHANGED <<args, frontend, interactive_step_selection, term, selvars,
                   all_steps, idx, nscopes, calls, lines, drawvars, ERROR_TEXT,
                   stdout, exit_code>>

\* KeyboardInterrupt while getch() waits
SelectInterrupt ==
    /\ pc = "Selecting" /\ frontend = "curses"
    /\ exc' = KeyboardInterrupt
    /\ pc' = Unwind
    /\ UNCHANGED <<args, frontend, interactive_step_selection, term, selvars,
                   all_steps, idx, nscopes, calls, lines, drawvars, ERROR_TEXT,
                   stdout, exit_code>>

\* ------------------------------------------------------------ main's loop
\* line 1041-1042: the for loop calls the next step function
StartStep ==
    /\ pc = "Executing" /\ idx <= Len(all_steps)
    /\ calls' = Append(calls, all_steps[idx])
    /\ pc' = "InStep"
    /\ UNCHANGED <<args, frontend, interactive_step_selection, term, selvars,
                   all_steps, idx, nscopes, lines, drawvars, ERROR_TEXT, exc,
                   stdout, exit_code>>

\* the for loop is exhausted: the with body ends normally
LoopEnd ==
    /\ pc = "Executing" /\ idx > Len(all_steps)
    /\ pc' = Unwind
    /\ UNCHANGED <<args, frontend, interactive_step_selection, term, selvars,
                   all_steps, idx, nscopes, calls, lines, drawvars, ERROR_TEXT,
                   exc, stdout, exit_code>>

\* StepReturn with the for loop staying on the same step
StepReturn_Rerun ==
    /\ pc = "InStep"
    /\ idx' = idx
    /\ pc' = "Executing"
    /\ UNCHANGED <<args, frontend, interactive_step_selection, term, selvars,
                   all_steps, nscopes, calls, lines, drawvars, ERROR_TEXT, exc,
                   stdout, exit_code>>

\* the step function returns, outside any run_step scope
StepReturn ==
    /\ pc = "InStep"
    /\ idx' = idx + 1
    /\ pc' = "Executing"
    /\ UNCHANGED <<args, frontend, interactive_step_selection, term, selvars,
                   all_steps, nscopes, calls, lines, drawvars, ERROR_TEXT, exc,
                   stdout, exit_code>>

\* code of a step function outside any run_step scope raises an Exception
\* (e.g. read_text in install_firefox, mkdir in setup_virtual_box_guest_additions)
StepRaises ==
    /\ pc = "InStep"
    /\ exc' = Raised(OSErrorExc)
    /\ pc' = Unwind
    /\ UNCHANGED <<args, frontend, interactive_step_selection, term, selvars,
                   all_steps, idx, nscopes, calls, lines, drawvars, ERROR_TEXT,
                   stdout, exit_code>>

\* KeyboardInterrupt while a step function is outside any scope
StepInterrupt ==
    /\ pc = "InStep"
    /\ exc' = KeyboardInterrupt
    /\ pc' = Unwind
    /\ UNCHANGED <<args, frontend, interactive_step_selection, term, selvars,
                   all_steps, idx, nscopes, calls, lines, drawvars, ERROR_TEXT,
                   stdout, exit_code>>

\* ---------------------------------------------------------------- run_step
\* the name of the scope being entered: step function and ordinal of the scope
ScopeName == <<all_steps[idx], nscopes + 1>>

Entry(name, state) == [name |-> name, state |-> state]
\* ReplaceLast that appends a second entry instead of replacing the last
ReplaceLast_Append(ls, name, state) == Append(ls, Entry(name, state))
\* ReplaceLast that overwrites the first entry instead of the last
ReplaceLast_First(ls, name, state) == [ls EXCEPT ![1] = Entry(name, state)]

\* self.lines[-1] = (name, state)
ReplaceLast(ls, name, state) == [ls EXCEPT ![Len(ls)] = Entry(name, state)]
\* the name parameter of the run_step scope the main flow is in
CurrentName == <<all_steps[idx], nscopes>>

\* EnterScope that starts a draw thread without testing self.running
EnterScope_AlwaysStart ==
    /\ pc = "InStep" /\ nscopes < MaxScopes
    /\ nscopes' = nscopes + 1
    /\ pc' = "InScope"
    /\ IF frontend = "curses"
       THEN /\ running' = TRUE
            /\ threads' = threads + 1
            /\ draw_pc' = "test"
            /\ lines' = Append(lines, Entry(ScopeName, RUNNING))
            /\ UNCHANGED stdout
       ELSE /\ stdout' = Emit("name", <<Tok("name", "", ScopeName)>>)
            /\ UNCHANGED <<lines, running, threads, draw_pc>>
    /\ UNCHANGED <<args, frontend, interactive_step_selection, term, selvars,
                   all_steps, idx, calls, painted, late_paint, ERROR_TEXT, exc,
                   exit_code>>

\* entry of run_step up to the yield: lines 259-264 (curses), 54 (plain)
EnterScope ==
    /\ pc = "InStep" /\ nscopes < MaxScopes
    /\ nscopes' = nscopes + 1
    /\ pc' = "InScope"
    /\ IF frontend = "curses"
       THEN /\ IF ~running
               THEN /\ running' = TRUE
                    /\ threads' = threads + 1
                    /\ draw_pc' = "test"
               ELSE UNCHANGED <<running, threads, draw_pc>>
            /\ lines' = Append(lines, Entry(ScopeName, RUNNING))
            /\ UNCHANGED stdout
       ELSE /\ stdout' = Emit("name", <<Tok("name", "", ScopeName)>>)
            /\ UNCHANGED <<lines, running, threads, draw_pc>>
    /\ UNCHANGED <<args, frontend, interactive_step_selection, term, selvars,
                   all_steps, idx, calls, painted, late_paint, ERROR_TEXT, exc,
                   exit_code>>

\* what leaving the scope with `state` records: lines 269/271/278 (curses),
\* 58/61/67 (plain)
Record(state) ==
    IF frontend = "curses"
    THEN /\ lines' = ReplaceLast(lines, CurrentName, state)
         /\ UNCHANGED stdout
    ELSE /\ stdout' = Emit("glyph", <<Tok("glyph", icon(state), <<0, 0>>)>>)
         /\ UNCHANGED lines

\* the body ends normally: the else clause
BodySuccess ==
    /\ pc = "InScope"
    /\ Record(SUCCESS)
    /\ pc' = "InStep"
    /\ UNCHANGED <<args, frontend, interactive_step_selection, term, selvars,
                   all_steps, idx, nscopes, calls, drawvars, ERROR_TEXT, exc,
                   exit_code>>

\* the body executes `return` (line 665): the scope ends normally and the
\* step function returns
BodyReturn ==
    /\ pc = "InScope"
    /\ Record(SUCCESS)
    /\ idx' = idx + 1
    /\ pc' = "Executing"
    /\ UNCHANGED <<args, frontend, interactive_step_selection, term, selvars,
                   all_steps, nscopes, calls, drawvars, ERROR_TEXT, exc,
                   exit_code>>

\* BodySkipped with StepSkipped handled like any other Exception
BodySkipped_AsFailure ==
    /\ pc = "InScope"
    /\ Record(SKIPPED)
    /\ ERROR_TEXT' = Text(<<>>)
    /\ exc' = SystemExit(1)
    /\ pc' = Unwind
    /\ UNCHANGED <<args, frontend, interactive_step_selection, term, selvars,
                   all_steps, idx, nscopes, calls, drawvars, exit_code>>

\* the body raises StepSkipped: the handler returns, the context manager
\* suppresses the exception
BodySkipped ==
    /\ pc = "InScope"
    /\ Record(SKIPPED)
    /\ pc' = "InStep"
    /\ UNCHANGED <<args, frontend, interactive_step_selection, term, selvars,
                   all_steps, idx, nscopes, calls, drawvars, ERROR_TEXT, exc,
                   exit_code>>

\* the Exceptions a scope body raises; stderr is None only for run_commands
\* and run_script of the plain frontend with --verbose (capture_output False)
BodyErrors ==
    {StepFailureExc, OSErrorExc, CapturedProcessError(<<>>),
     CapturedProcessError(<<Msg("stderr")>>)}
    \cup (IF frontend = "simple" /\ args.verbose THEN {UncapturedProcessError} ELSE {})

\* the text the except Exception handler assigns to ERROR_TEXT: line 274
\* (curses, lines already updated), line 63 (plain)
FailureText(ls, e) ==
    IF frontend = "curses"
    THEN stringify_lines(ls) \o <<NL>> \o stringify_exception(e)
    ELSE stringify_exception(e)

\* what the except Exception handler raises once the status is recorded
FailureExit(e) == IF StringifyRaises(e) THEN Raised(AttributeErrorExc) ELSE SystemExit(1)

\* BodyFails without the raise SystemExit(1) that ends the handler
BodyFails_NoRaise ==
    /\ pc = "InScope"
    /\ \E e \in BodyErrors :
         /\ Record(FAILURE)
         /\ ERROR_TEXT' = IF StringifyRaises(e) THEN ERROR_TEXT
                          ELSE Text(FailureText(lines', e))
    /\ pc' = "InStep"
    /\ UNCHANGED <<args, frontend, interactive_step_selection, term, selvars,
                   all_steps, idx, nscopes, calls, drawvars, exc, exit_code>>

\* the body raises an Exception other than StepSkipped: lines 270-276, 60-64
BodyFails ==
    /\ pc = "InScope"
    /\ \E e \in BodyErrors :
         /\ Record(FAILURE)
         /\ ERROR_TEXT' = IF StringifyRaises(e) THEN ERROR_TEXT
                          ELSE Text(FailureText(lines', e))
         /\ exc' = FailureExit(e)
    /\ pc' = Unwind
    /\ UNCHANGED <<args, frontend, interactive_step_selection, term, selvars,
                   all_steps, idx, nscopes, calls, drawvars, exit_code>>

\* BodyInterrupt with a handler that catches BaseException
BodyInterrupt_AsFailure ==
    /\ pc = "InScope"
    /\ Record(FAILURE)
    /\ ERROR_TEXT' = Text(FailureText(lines', NoError))
    /\ exc' = SystemExit(1)
    /\ pc' = Unwind
    /\ UNCHANGED <<args, frontend, interactive_step_selection, term, selvars,
                   all_steps, idx, nscopes, calls, drawvars, exit_code>>

\* KeyboardInterrupt in the body: no except clause of run_step matches
BodyInterrupt ==
    /\ pc = "InScope"
    /\ exc' = KeyboardInterrupt
    /\ pc' = Unwind
    /\ UNCHANGED <<args, frontend, interactive_step_selection, term, selvars,
                   all_steps, idx, nscopes, calls, lines, drawvars, ERROR_TEXT,
                   stdout, exit_code>>

\* ------------------------------------------------- get_frontend's finally
\* RestoreTerm without the call of curses.endwin()
RestoreTerm_NoEndwin(t) ==
    IF t.stdscr
    THEN [t EXCEPT !.keypad = FALSE, !.echo = TRUE, !.cbreak = FALSE]
    ELSE t

\* lines 367-371: keypad(False), echo(), nocbreak(), endwin()
RestoreTerm(t) ==
    IF t.stdscr
    THEN [t EXCEPT !.keypad = FALSE, !.echo = TRUE, !.cbreak = FALSE,
                   !.curses_mode = FALSE]
    ELSE t

Teardown ==
    /\ pc = "FrontendFinally"
    /\ term' = RestoreTerm(term)
    /\ pc' = "FrontendReport"
    /\ UNCHANGED <<args, frontend, interactive_step_selection, selvars, all_steps,
                   idx, nscopes, calls, lines, drawvars, ERROR_TEXT, exc, stdout,
                   exit_code>>

\* lines 373-374: print(stringify_lines(frontend.lines)) if frontend is bound
FrontendReport ==
    /\ pc = "FrontendReport"
    /\ stdout' = IF frontend = "curses"
                 THEN Emit("report", stringify_lines(lines))
                 ELSE stdout
    /\ pc' = "MainHandlers"
    /\ UNCHANGED <<args, frontend, interactive_step_selection, term, selvars,
                   all_steps, idx, nscopes, calls, lines, drawvars, ERROR_TEXT,
                   exc, exit_code>>

\* ------------------------------------------- main's except/finally, exit
\* lines 1045-1049: ERROR_TEXT after main's handlers ran for exception x
MainErrorText(x, et) ==
    IF x.type = "Exception"
    THEN LET base == IF et.isNone THEN <<>> ELSE et.text
         IN  IF StringifyRaises(x.e) THEN Text(base)
             ELSE Text(base \o stringify_exception(x.e))
    ELSE et

\* MainExitCode with the return 1 of line 1050 missing
MainExitCode_NoReturnOne(x) ==
    CASE x.type = "none" -> 0
      [] x.type = "KeyboardInterrupt" -> 0
      [] x.type = "Exception" -> 0
      [] x.type = "SystemExit" -> x.code

\* lines 1043-1055, 1059: the status the process exits with
MainExitCode(x) ==
    CASE x.type = "none" -> 0
      [] x.type = "KeyboardInterrupt" -> 0
      [] x.type = "Exception" -> 1
      [] x.type = "SystemExit" -> x.code

MainHandlers ==
    /\ pc = "MainHandlers"
    /\ ERROR_TEXT' = MainErrorText(exc, ERROR_TEXT)
    /\ stdout' = IF Truthy(ERROR_TEXT')
                 THEN Emit("error_text", ERROR_TEXT'.text)
                 ELSE stdout
    /\ exit_code' = MainExitCode(exc)
    /\ pc' = "Exited"
    /\ UNCHANGED <<args, frontend, interactive_step_selection, term, selvars,
                   all_steps, idx, nscopes, calls, lines, drawvars, exc>>

\* -------------------------------------------------------------- _draw_loop
\* VisibleLines read entry by entry, each name paired with the status the
\* log's last entry has
VisibleLines_Torn(ls, h) ==
    LET v == IF h = 0 \/ h >= Len(ls) THEN ls
             ELSE SubSeq(ls, Len(ls) - h + 1, Len(ls))
    IN  [i \in 1 .. Len(v) |-> [name |-> v[i].name, state |-> ls[Len(ls)].state]]

\* line 211: lines[-max_y:]
VisibleLines(ls, h) ==
    IF h = 0 \/ h >= Len(ls) THEN ls
    ELSE SubSeq(ls, Len(ls) - h + 1, Len(ls))

\* line 284: while self.running (the daemon thread dies with the process)
DrawTest ==
    /\ draw_pc = "test" /\ pc # "Exited"
    /\ draw_pc' = IF running THEN "paint" ELSE "ended"
    /\ UNCHANGED <<args, pc, frontend, interactive_step_selection, term, selvars,
                   all_steps, idx, nscopes, calls, lines, running, threads,
                   painted, late_paint, ERROR_TEXT, exc, stdout, exit_code>>

\* lines 285-286: draw_steps_progress, then sleep
DrawPaint ==
    /\ draw_pc = "paint" /\ pc # "Exited"
    /\ \E h \in 0 .. MaxY : painted' = VisibleLines(lines, h)
    /\ late_paint' = (late_paint \/ ~term.curses_mode)
    /\ draw_pc' = "test"
    /\ UNCHANGED <<args, pc, frontend, interactive_step_selection, term, selvars,
                   all_steps, idx, nscopes, calls, lines, running, threads,
                   ERROR_TEXT, exc, stdout, exit_code>>

\* ------------------------------------------------------------------- Next
Next ==
    \/ GetSudo \/ GetSudoFails
    \/ GetFrontendSimple \/ GetFrontendCurses \/ GetFrontendCursesFails
    \/ SelectAll \/ AskInput \/ AskStep \/ AskInterrupt
    \/ KeyPress \/ KeyEnter \/ KeyQuit \/ SelectInterrupt
    \/ StartStep \/ LoopEnd \/ StepReturn \/ StepRaises \/ StepInterrupt
    \/ EnterScope \/ BodySuccess \/ BodyReturn \/ BodySkipped \/ BodyFails
    \/ BodyInterrupt
    \/ Teardown \/ FrontendReport \/ MainHandlers
    \/ DrawTest \/ DrawPaint

Spec == Init /\ [][Next]_vars

\* =================================================================== claims
\* a run_step scope ended in Failure: a FAILURE entry of the StatusLog
\* (curses) or a printed FAIL_CHAR (plain)
FailureRecorded ==
    \/ \E i \in 1 .. Len(lines) : lines[i].state = FAILURE
    \/ \E i \in 1 .. Len(stdout) :
         stdout[i].what = "glyph" /\ stdout[i].text[1].g = FAIL_CHAR

\* run_step scopes started, as the frontend shows them
ScopesStarted ==
    IF frontend = "curses" THEN Len(lines)
    ELSE Cardinality({i \in 1 .. Len(stdout) : stdout[i].what = "name"})

\* the glyph of the status recorded last
LastGlyph ==
    IF frontend = "curses"
    THEN IF lines = <<>> THEN "" ELSE icon(lines[Len(lines)].state)
    ELSE IF stdout # <<>> /\ stdout[Len(stdout)].what = "glyph"
         THEN stdout[Len(stdout)].text[1].g ELSE ""

Restored(t) == ~t.keypad /\ t.echo /\ ~t.cbreak /\ ~t.curses_mode

\* C1: with the curses frontend, whenever the main flow is outside every
\* run_step scope (each scope entered so far was left, by whatever path), no
\* StatusLog entry has status Running.
C1_NoEntryStuckRunning ==
    (frontend = "curses" /\ pc # "InScope") =>
        \A i \in 1 .. Len(lines) : lines[i].state # RUNNING

\* C2: once a scope body raised an error other than StepSkipped (a Failure is
\* recorded, or an exception is propagating), no step function is invoked and
\* no run_step scope is started any more, in either frontend.
C2_RunnerStopsOnError ==
    [][(FailureRecorded \/ exc.type # "none") =>
           (calls' = calls /\ ScopesStarted' = ScopesStarted /\ nscopes' = nscopes)]_vars

\* a failed scope ended the run while the chosen list had steps left
C2_Witness ==
    /\ pc = "Exited" /\ FailureRecorded
    /\ Len(calls) < Len(all_steps)

\* C3: a body raising StepSkipped records Skipped, and the step that records
\* Skipped raises nothing, leaves ERROR_TEXT unset, does not end the process
\* and hands control back to the step function, which goes on.
C3_SkipAbsorbed ==
    [][/\ BodySkipped => LastGlyph' = SKIP_CHAR
       /\ (pc = "InScope" /\ LastGlyph' = SKIP_CHAR) =>
            /\ exc' = NoExc
            /\ ERROR_TEXT'.isNone
            /\ exit_code' = -1
            /\ pc' = "InStep"]_vars

\* a skipped scope was followed by the invocation of a later step
C3_Witness ==
    /\ Len(calls) = 2 /\ pc = "InStep" /\ nscopes = 1
    /\ LastGlyph = SKIP_CHAR

\* C4: at process exit, a run in which a scope ended in Failure has
\* ERROR_TEXT set to a non-empty value.
C4_FailureSetsErrorText ==
    (pc = "Exited" /\ FailureRecorded) => Truthy(ERROR_TEXT)

\* C5: a run whose selection returned and that exits with code 0 has invoked
\* every step of the chosen list, with every scope ended in Success or Skipped.
C5_ExitZeroOnlyWhenComplete ==
    (pc = "Exited" /\ exit_code = 0 /\ calls # <<>>) =>
        /\ idx > Len(all_steps)
        /\ exc.type = "none"
        /\ \A i \in 1 .. Len(lines) : lines[i].state \in {SUCCESS, SKIPPED}

EndsWith(t, m) ==
    Len(t) >= Len(m) /\ SubSeq(t, Len(t) - Len(m) + 1, Len(t)) = m

\* C6: a process that exits after a scope ended in Failure exits with code
\* 1; a process that exits because a step function raised an Exception exits
\* with code 1, with the terminal restored, no step invoked after the one that
\* raised, and the exception's message at the end of ERROR_TEXT.
C6_ExitOneOnFailure ==
    pc = "Exited" =>
        /\ FailureRecorded => exit_code = 1
        /\ (exc.type = "Exception" /\ calls # <<>>) =>
             /\ exit_code = 1
             /\ term.stdscr => Restored(term)
             /\ Len(calls) = idx /\ idx <= Len(all_steps)
             /\ ~ERROR_TEXT.isNone
             /\ EndsWith(ERROR_TEXT.text, stringify_exception(exc.e))

\* the curses run ended by an Exception raised outside any scope, with steps left
C6_Witness ==
    /\ pc = "Exited" /\ frontend = "curses"
    /\ exc = Raised(OSErrorExc) /\ ~FailureRecorded
    /\ Len(calls) < Len(all_steps)
    /\ exit_code = 1

\* printed blocks that hold the flat report: the print of get_frontend's
\* finally, and an ERROR_TEXT that embeds stringify_lines
ReportEvents ==
    {i \in 1 .. Len(stdout) :
        \/ stdout[i].what = "report"
        \/ /\ stdout[i].what = "error_text"
           /\ \E j \in 1 .. Len(stdout[i].text) : stdout[i].text[j].t = "line"}

\* the plain variant's inline transcript is counted as its one report
ReportEmissions ==
    IF frontend = "curses" THEN Cardinality(ReportEvents) ELSE 1

\* C7: a process that exits after attempting at least one step has emitted
\* the run report exactly once.
C7_ReportEmittedOnce ==
    (pc = "Exited" /\ frontend # "none" /\ nscopes > 0) => ReportEmissions = 1

C9_StoppedBeforeExit ==
    (pc = "Exited" /\ frontend = "curses" /\ (exc.type = "none" \/ FailureRecorded))
        => ~running

\* an operator interrupt is propagating: KeyboardInterrupt, or the
\* SystemExit(1) _ask_step turns it into during selection
Interrupted ==
    \/ exc.type = "KeyboardInterrupt"
    \/ exc = SystemExit(1) /\ calls = <<>>

\* C10: an interrupt during selection or in a step body records no Failure
\* and leaves ERROR_TEXT unset; while it propagates no step function is
\* invoked, no scope is started, and the process exits only with the terminal
\* restored.
C10_InterruptAborts ==
    [][/\ (BodyInterrupt \/ SelectInterrupt \/ AskInterrupt) =>
            (Interrupted' /\ ~FailureRecorded' /\ ERROR_TEXT'.isNone)
       /\ Interrupted =>
            /\ calls' = calls /\ nscopes' = nscopes
            /\ ~FailureRecorded' /\ ERROR_TEXT'.isNone
            /\ (pc' = "Exited" /\ term.stdscr) => Restored(term')]_vars

\* a curses run interrupted in a step body has exited, terminal restored
C10_Witness ==
    /\ pc = "Exited" /\ frontend = "curses" /\ exc.type = "KeyboardInterrupt"
    /\ lines # <<>> /\ lines[Len(lines)].state = RUNNING
    /\ Restored(term)

\* ------------------------------------------- the selection screen alone
\* The curses selection screen over SelSteps candidates: the state in which
\* get_frontend has yielded the CursesFrontend and select_steps starts.
InitSel ==
    /\ args \in {a \in [fancy : BOOLEAN, unattended : BOOLEAN, verbose : BOOLEAN,
                        stdin_tty : BOOLEAN, stdout_tty : BOOLEAN] :
                    a.fancy /\ ~a.unattended /\ a.stdin_tty /\ a.stdout_tty}
    /\ pc = "Selecting"
    /\ frontend = "curses"
    /\ interactive_step_selection = FALSE
    /\ term = CursesTerm
    /\ current_step = 0
    /\ offset = 0
    /\ all_steps = [i \in 1 .. SelSteps |-> i]
    /\ enabled = [i \in 1 .. SelSteps |-> TRUE]
    /\ c = NoKey
    /\ max_y = 0
    /\ toggled = [i \in 1 .. SelSteps |-> FALSE]
    /\ ask = 1
    /\ answer = NoAnswer
    /\ idx = 1
    /\ nscopes = 0
    /\ calls = <<>>
    /\ lines = <<>>
    /\ running = FALSE
    /\ threads = 0
    /\ draw_pc = "none"
    /\ painted = <<>>
    /\ late_paint = FALSE
    /\ ERROR_TEXT = NoneText
    /\ exc = NoExc
    /\ stdout = <<>>
    /\ exit_code = -1

NextSel == KeyPress \/ KeyEnter \/ KeyQuit \/ SelectInterrupt

SpecSel == InitSel /\ [][NextSel]_vars

\* r holds exactly the candidates whose flag is set, in candidate order
IsFiltered(r, cands, flags) ==
    /\ Len(r) <= Len(cands)
    /\ \A i, j \in 1 .. Len(r) : i < j => r[i] < r[j]
    /\ {r[i] : i \in 1 .. Len(r)} = {cands[k] : k \in {k \in 1 .. Len(cands) : flags[k]}}

\* C11: when the selection screen confirms, the list it returns holds exactly
\* the candidates whose enabled flag is set at that moment, in their original
\* order (so all of them if none was toggled, and all but one if one is off).
C11_ConfirmReturnsEnabled ==
    [][(pc = "Selecting" /\ pc' = "Executing") =>
           /\ IsFiltered(all_steps', all_steps, enabled)
           /\ (\A k \in 1 .. Len(enabled) : enabled[k]) => all_steps' = all_steps]_vars

\* scenario C: five candidates, index 2 (the third) disabled, confirmed
C11_Witness ==
    /\ pc = "Executing" /\ Len(all_steps) = SelSteps - 1
    /\ \A i \in 1 .. Len(all_steps) : all_steps[i] # 3
    /\ all_steps = <<1, 2>> \o [i \in 1 .. SelSteps - 3 |-> i + 3]

\* C12: a SystemExit leaving the curses selection screen (the quit key) has
\* code 0 and goes straight to the frontend teardown; from then on no step is
\* invoked, no scope is entered, no Failure is recorded, ERROR_TEXT stays
\* unset, and the process exits with status 0 and the terminal restored.
C12_QuitExitsZero ==
    [][/\ (pc = "Selecting" /\ frontend = "curses" /\ exc'.type = "SystemExit")
             => (exc' = SystemExit(0) /\ pc' = "FrontendFinally")
       /\ exc = SystemExit(0)
             => /\ exc' = exc
                /\ calls' = <<>> /\ nscopes' = 0 /\ lines' = <<>>
                /\ ~FailureRecorded'
                /\ ERROR_TEXT'.isNone
                /\ pc' \in {"FrontendReport", "MainHandlers", "Exited"}
                /\ Restored(term')
                /\ pc' = "Exited" => exit_code' = 0]_vars

C12_Witness ==
    /\ pc = "Exited" /\ exc = SystemExit(0) /\ exit_code = 0
    /\ term.stdscr /\ Restored(term) /\ calls = <<>>

\* the combination in which the full-screen variant may be offered
BothTerminals == args.stdin_tty /\ args.stdout_tty
FancyCombination == args.fancy /\ ~args.unattended /\ BothTerminals

\* C13: the frontend is chosen once, when get_frontend runs after get_sudo and
\* before any step or scope, and never changes afterwards; the chosen variant
\* is the curses one exactly when fancy is set, unattended is not set and
\* stdin and stdout are both terminals, and the plain one otherwise, with
\* yes/no selection exactly when unattended is not set and both streams are
\* terminals; only in the fancy combination can get_frontend end without a
\* frontend (a curses call raising).
C13_FrontendChosenOnce ==
    [][/\ frontend # "none"
             => /\ frontend' = frontend
                /\ interactive_step_selection' = interactive_step_selection
       /\ (frontend = "none" /\ frontend' # "none")
             => /\ pc = "SudoAcquired" /\ calls = <<>> /\ nscopes = 0
                /\ frontend' \in {"simple", "curses"}
                /\ (frontend' = "curses") <=> FancyCombination
                /\ frontend' = "simple"
                      => (interactive_step_selection'
                             <=> (~args.unattended /\ BothTerminals))
       /\ (pc = "SudoAcquired" /\ pc' # pc /\ frontend' = "none") => FancyCombination
       /\ (calls' # <<>> \/ nscopes' # 0 \/ pc' = "Selecting") => frontend' # "none"
       /\ args' = args]_vars

C13_Witness ==
    /\ frontend = "curses" /\ FancyCombination /\ calls # <<>> /\ pc = "Exited"

\* C14: with --unattended, whatever --fancy and the tty capability of stdin
\* and stdout are, the frontend is the plain one without selection, no answer
\* is ever read from the operator, no selection key is processed, and the list
\* main iterates over is the full candidate list in its original order.
C14_UnattendedSelectsAll ==
    args.unattended =>
        /\ frontend # "curses"
        /\ ~interactive_step_selection
        /\ answer = NoAnswer /\ ask = 1 /\ enabled = <<>>
        /\ all_steps = AllSteps
        /\ \A i \in 1 .. Len(calls) : calls[i] = AllSteps[i]

C14_Witness ==
    /\ args.unattended /\ args.fancy /\ args.stdin_tty /\ args.stdout_tty
    /\ pc = "Exited" /\ calls = AllSteps /\ exit_code = 0

\* C15: in every state of a run with the curses frontend, the StatusLog has
\* one entry per run_step scope entered so far, at most one entry has status
\* Running, and an entry with status Running is the last one.
C15_OneRunningAtEnd ==
    frontend = "curses" =>
        /\ Len(lines) = nscopes
        /\ Cardinality({i \in 1 .. Len(lines) : lines[i].state = RUNNING}) <= 1
        /\ \A i \in 1 .. Len(lines) : lines[i].state = RUNNING => i = Len(lines)

C15_Witness ==
    /\ frontend = "curses" /\ pc = "InScope" /\ Len(lines) >= 2
    /\ lines[Len(lines)].state = RUNNING
    /\ \A i \in 1 .. Len(lines) - 1 : lines[i].state # RUNNING

\* the answers that select, and those that deselect, whatever their case
YesAnswers == {"", "y", "Y", "yes", "YES"}
NoAnswers == {"n", "N", "no", "No"}

\* the step being asked about got decision b: the next step is asked, or,
\* after the last one, selection returns the steps decided yes, in order
Decided(b) ==
    LET flags == Append(enabled, b)
    IN  IF ask < Len(all_steps)
        THEN ask' = ask + 1 /\ enabled' = flags /\ all_steps' = all_steps /\ pc' = pc
        ELSE pc' = "Executing" /\ IsFiltered(all_steps', all_steps, flags)

\* C16: while the plain frontend selects interactively, the steps are asked
\* one at a time in list order (step number ask is asked when steps 1..ask-1
\* are decided); an answer that is empty, y or yes in any case selects the
\* step, n or no deselects it, any other answer leaves every decision and the
\* step being asked unchanged and asks again; after the last step the result
\* is the selected steps in their original order.
C16_PromptPerStep ==
    [][(pc = "Selecting" /\ frontend = "simple" /\ interactive_step_selection) =>
           /\ Len(enabled) = ask - 1 /\ ask \in 1 .. Len(all_steps)
           /\ answer = NoAnswer
                 => /\ UNCHANGED <<ask, enabled, all_steps>>
                    /\ \/ pc' = pc /\ answer' # NoAnswer
                       \/ pc' # pc /\ exc' = SystemExit(1)
           /\ answer # NoAnswer
                 => /\ answer' = NoAnswer
                    /\ IF answer.text \in YesAnswers THEN Decided(TRUE)
                       ELSE IF answer.text \in NoAnswers THEN Decided(FALSE)
                       ELSE UNCHANGED <<ask, enabled, all_steps, pc>>]_vars

\* the first step was answered no, the others yes, and the chosen steps ran
C16_Witness ==
    /\ frontend = "simple" /\ interactive_step_selection
    /\ all_steps = [i \in 1 .. NumSteps - 1 |-> i + 1]
    /\ calls = all_steps /\ pc = "Exited" /\ exit_code = 0

\* C17: no repaint of the drawing surface (draw_steps_progress: clear, addstr,
\* refresh) happens once get_frontend's finally clause has run curses.endwin(),
\* in particular none after the flat final report was printed.
C17_NoRepaintAfterTeardown == ~late_paint

\* p is the last Len(p) entries of l
IsSuffix(p, l) ==
    /\ Len(p) <= Len(l)
    /\ \A i \in 1 .. Len(p) : p[i] = l[Len(l) - Len(p) + i]

\* C18: whenever the repaint loop paints, under every interleaving with the
\* main flow, what it paints is a suffix of the StatusLog as it is at that
\* instant: every painted (name, status) pair is an entry of that log, at the
\* position it has there.  The paint changes nothing of the log.
C18_PaintIsSnapshotSuffix ==
    [][(draw_pc = "paint" /\ draw_pc' # draw_pc) =>
           /\ IsSuffix(painted', lines)
           /\ \A i \in 1 .. Len(painted') :
                 \E k \in 1 .. Len(lines) : painted'[i] = lines[k]
           /\ lines' = lines]_vars

\* a paint of the last two of three entries, the running one and a finished one
C18_Witness ==
    /\ Len(lines) = 3 /\ Len(painted) = 2
    /\ painted = SubSeq(lines, 2, 3)
    /\ painted[1].state # RUNNING /\ painted[2].state = RUNNING

Terminal == {SUCCESS, FAILURE, SKIPPED}

\* C19: every change of the StatusLog is a step of the main flow inside
\* run_step (entering a scope, or leaving the scope it is in) and is either
\* the append of one entry with status Running, or the replacement of the
\* last entry, which had status Running, by an entry of the same name with a
\* terminal status; all other entries are left as they are, and a step of the
\* repaint loop leaves the whole log as it is.
C19_AppendOrReplaceLast ==
    [][/\ lines' # lines =>
             /\ frontend = "curses"
             /\ \/ /\ pc = "InStep" /\ pc' = "InScope"
                   /\ Len(lines') = Len(lines) + 1
                   /\ SubSeq(lines', 1, Len(lines)) = lines
                   /\ lines'[Len(lines')].state = RUNNING
                \/ /\ pc = "InScope" /\ pc' # "InScope"
                   /\ lines # <<>> /\ Len(lines') = Len(lines)
                   /\ \A i \in 1 .. Len(lines) - 1 : lines'[i] = lines[i]
                   /\ lines[Len(lines)].state = RUNNING
                   /\ lines'[Len(lines)].state \in Terminal
                   /\ lines'[Len(lines)].name = lines[Len(lines)].name
       /\ (draw_pc # "none" /\ draw_pc' # draw_pc) => lines' = lines
       /\ painted' # painted => lines' = lines]_vars

\* two scopes were entered and left, with different outcomes
C19_Witness ==
    /\ Len(lines) = 2 /\ pc = "InStep"
    /\ lines[1].state = SKIPPED /\ lines[2].state = SUCCESS
    /\ lines[1].name # lines[2].name

\* the Runner's phase: Init, SudoAcquired, Selecting, Executing, Done/Failed
Phase(p) ==
    CASE p = "Init" -> 0
      [] p = "SudoAcquired" -> 1
      [] p = "Selecting" -> 2
      [] p \in {"Executing", "InStep", "InScope"} -> 3
      [] p \in {"FrontendFinally", "FrontendReport", "MainHandlers", "Exited"} -> 4

\* C20: the Runner's phases only advance, in the order Init, SudoAcquired
\* (entered from Init only), Selecting (from SudoAcquired only), Executing
\* (from Selecting only), then the end of the run; a step function is invoked
\* only in the Executing phase while no step function is active, it is the
\* next step of the chosen list, the chosen list does not change while steps
\* run, and so the invoked steps are a prefix of the chosen list, each invoked
\* at most once.
C20_PhasesInOrder ==
    [][/\ Phase(pc') >= Phase(pc)
       /\ (Phase(pc') = 1 /\ Phase(pc) # 1) => pc = "Init"
       /\ (Phase(pc') = 2 /\ Phase(pc) # 2) => pc = "SudoAcquired"
       /\ (Phase(pc') = 3 /\ Phase(pc) # 3) => (pc = "Selecting" /\ pc' = "Executing")
       /\ Phase(pc) = 3 => all_steps' = all_steps
       /\ calls' # calls =>
             /\ pc = "Executing" /\ pc' = "InStep"
             /\ Len(calls) < Len(all_steps)
             /\ calls' = Append(calls, all_steps[Len(calls) + 1])
       /\ Len(calls') <= Len(all_steps')
       /\ \A i \in 1 .. Len(calls') : calls'[i] = all_steps'[i]
       /\ \A i, j \in 1 .. Len(calls') : i < j => calls'[i] < calls'[j]]_vars

\* the curses run in which every candidate was chosen and has returned
C20_Witness ==
    /\ frontend = "curses" /\ pc = "Executing" /\ idx = Len(all_steps) + 1
    /\ calls = AllSteps /\ Len(calls) >= 2

\* the curses selection loop is waiting for a key; a key event is a step that
\* stays in the loop
InSelection == pc = "Selecting" /\ frontend = "curses"
KeyEvent == InSelection /\ pc' = "Selecting"

\* C21: in the selection screen over N >= 1 candidates the cursor is always
\* within 0..N-1; key down moves it down by one except at N-1 where it stays,
\* key up moves it up by one except at 0 where it stays, no other key moves
\* it; the enabled list always has one flag per candidate, and a key changes
\* at most the flag at the cursor, so flags stay with their candidates.
C21_CursorClamped ==
    [][KeyEvent =>
           LET N == Len(all_steps)
           IN  /\ N >= 1 /\ all_steps' = all_steps
               /\ current_step \in 0 .. N - 1 /\ current_step' \in 0 .. N - 1
               /\ Len(enabled) = N /\ Len(enabled') = N
               /\ c' = "KEY_DOWN" =>
                    current_step' = IF current_step = N - 1 THEN N - 1
                                    ELSE current_step + 1
               /\ c' = "KEY_UP" =>
                    current_step' = IF current_step = 0 THEN 0
                                    ELSE current_step - 1
               /\ c' \notin {"KEY_DOWN", "KEY_UP"} => current_step' = current_step
               /\ \A i \in 1 .. N : i # current_step + 1 => enabled'[i] = enabled[i]]_vars

\* the cursor is on the last candidate after key down, a flag above it is off
C21_Witness ==
    /\ InSelection /\ c = "KEY_DOWN" /\ current_step = Len(all_steps) - 1
    /\ Len(all_steps) = SelSteps /\ ~enabled[1] /\ enabled[SelSteps]

\* C22: after every key event of the selection screen at which the height
\* read gives a viewport of max_y - 3 >= 1 rows, smaller than the number of
\* candidates, the cursor is inside the window: offset <= current_step <
\* offset + (max_y - 3).  (With a viewport of no rows no cursor position can
\* satisfy this; those heights are left out here.)
C22_CursorInWindow ==
    [][KeyEvent =>
           LET N == Len(all_steps)
               viewport == max_y' - 3
           IN  (viewport >= 1 /\ N > viewport) =>
                   /\ offset' <= current_step'
                   /\ current_step' < offset' + viewport]_vars

\* the scrolling policy as stated: one row down when the cursor is below the
\* window, one row up when it is above, then the clamp to the end of the list
ClaimedOffset(cur, off, n, viewport) ==
    LET down == IF cur >= off + viewport THEN off + 1 ELSE off
        up == IF cur < down THEN down - 1 ELSE down
    IN  IF n - up < viewport THEN Max(0, n - viewport) ELSE up

\* C23: at every key event, with viewport = max_y - 3 for the height read at
\* that event, the offset moves down by one if the cursor is below the window
\* and up by one if it is above, and if fewer than viewport steps remain from
\* the offset it becomes max(0, N - viewport); it is never negative.
C23_ScrollByOneAndClamp ==
    [][KeyEvent =>
           /\ offset' = ClaimedOffset(current_step', offset, Len(all_steps), max_y' - 3)
           /\ offset' >= 0]_vars

\* rows of the screen below the reserved rows do not exist at these heights
SmallHeights == 0 .. 2

\* C24: at every point of the selection loop, whatever the key events so far
\* and the heights read at them, a redraw at a screen height h < 3 draws no
\* step row and addresses no row >= h (only "Select:" on row 0, and only if
\* h > 0); the step indices it reads are within the list, the cursor indexes
\* the enabled list in range, the offset is >= 0, and confirm still returns
\* exactly the enabled candidates in order.
C24_SmallScreenTolerated ==
    [][InSelection =>
           LET N == Len(all_steps)
           IN  /\ \A h \in SmallHeights :
                     LET s == redraw_screen(h, N, enabled, current_step, offset)
                     IN  /\ s.rows = {}
                         /\ s.header => 0 < h
                         /\ \A k \in SliceIndices(N, offset, offset + h - 3) :
                               k \in 0 .. N - 1 /\ k + 1 \in DOMAIN enabled
               /\ current_step + 1 \in DOMAIN enabled
               /\ offset >= 0 /\ offset' >= 0
               /\ pc' = "Executing" => IsFiltered(all_steps', all_steps, enabled)]_vars

\* keys were handled while the height read was below 3: the cursor moved down
\* and a flag was toggled off
C24_Witness ==
    /\ InSelection /\ max_y \in SmallHeights /\ c = "space"
    /\ current_step >= 2 /\ ~enabled[current_step + 1] /\ offset >= 1

\* C25: a candidate's enabled flag is true exactly when it was toggled an even
\* number of times and false when toggled an odd number of times; the space
\* key flips the flag of the step under the cursor and changes no other flag,
\* nor the cursor, nor the candidates; no other key changes a flag; confirm
\* returns the candidates toggled an even number of times, in order.
C25_ToggleParity ==
    [][InSelection =>
           LET N == Len(all_steps)
           IN  /\ \A i \in 1 .. N : enabled[i] = ~toggled[i]
               /\ (KeyEvent /\ c' = "space") =>
                     /\ enabled'[current_step + 1] = ~enabled[current_step + 1]
                     /\ \A i \in 1 .. N : i # current_step + 1 => enabled'[i] = enabled[i]
                     /\ current_step' = current_step
                     /\ all_steps' = all_steps
               /\ (KeyEvent /\ c' # "space") => enabled' = enabled
               /\ KeyEvent => \A i \in 1 .. N : enabled'[i] = ~toggled'[i]
               /\ pc' = "Executing" => IsFiltered(all_steps', all_steps,
                                                  [i \in 1 .. N |-> ~toggled[i]])]_vars

\* the last key toggled the step under the cursor back on (its second, fourth,
\* ... toggle) while another step is off
C25_Witness ==
    /\ InSelection /\ c = "space"
    /\ enabled[current_step + 1] /\ ~toggled[current_step + 1]
    /\ \E i \in 1 .. Len(enabled) : ~enabled[i] /\ toggled[i]

\* ------------------------------------------ draw_steps_progress alone
\* the StatusLogs run_step can build with at most MaxScopes scopes: finished
\* entries, then possibly one more entry of any status
Logs ==
    UNION {{l \in [1 .. n -> [name : {<<1, k>> : k \in 1 .. MaxScopes}, state : StepState]] :
              \A i \in 1 .. n :
                 /\ l[i].name = <<1, i>>
                 /\ i < n => l[i].state # RUNNING} : n \in 0 .. MaxScopes}

\* the draw loop is about to call draw_steps_progress on some log
InitDraw ==
    /\ args \in {a \in [fancy : BOOLEAN, unattended : BOOLEAN, verbose : BOOLEAN,
                        stdin_tty : BOOLEAN, stdout_tty : BOOLEAN] :
                    a.fancy /\ ~a.unattended /\ ~a.verbose /\ a.stdin_tty /\ a.stdout_tty}
    /\ pc = "InStep"
    /\ frontend = "curses"
    /\ interactive_step_selection = FALSE
    /\ term = CursesTerm
    /\ current_step = 0
    /\ offset = 0
    /\ enabled = <<>>
    /\ c = NoKey
    /\ max_y = 0
    /\ toggled = <<>>
    /\ ask = 1
    /\ answer = NoAnswer
    /\ all_steps = AllSteps
    /\ idx = 1
    /\ lines \in Logs
    /\ nscopes = Len(lines)
    /\ calls = <<1>>
    /\ running = TRUE
    /\ threads = 1
    /\ draw_pc = "paint"
    /\ painted = <<>>
    /\ late_paint = FALSE
    /\ ERROR_TEXT = NoneText
    /\ exc = NoExc
    /\ stdout = <<>>
    /\ exit_code = -1

\* lines 207-223: one call of draw_steps_progress; max_y records the height
\* its getmaxyx returned
Repaint ==
    /\ draw_pc = "paint"
    /\ \E h \in 0 .. MaxY :
         /\ max_y' = h
         /\ painted' = VisibleLines(lines, h)
    /\ UNCHANGED <<args, pc, frontend, interactive_step_selection, term,
                   current_step, offset, enabled, c, toggled, ask, answer,
                   all_steps, idx, nscopes, calls, lines, running, threads,
                   draw_pc, late_paint, ERROR_TEXT, exc, stdout, exit_code>>

NextDraw == Repaint

SpecDraw == InitDraw /\ [][NextDraw]_vars

\* C26: what a repaint at height max_y painted is the most recent
\* min(max_y, length) entries of the StatusLog, in log order, the i-th of them
\* on row i - 1, so that every painted row is below max_y.
C26_PaintTailsLog ==
    /\ Len(painted) = Min(max_y, Len(lines))
    /\ IsSuffix(painted, lines)
    /\ \A i \in 1 .. Len(painted) : i - 1 < max_y

\* the number of times ERROR_TEXT was printed
ErrorTextPrints(out) == Cardinality({i \in 1 .. Len(out) : out[i].what = "error_text"})

\* C27: ERROR_TEXT is unset until the run starts executing steps or fails,
\* it is assigned at most once, and only on a failure (a scope recorded
\* Failure, or an exception reached main's handler); it is printed only by
\* main's finally clause, after the frontend teardown, and at process end it
\* has been printed exactly once if it was set and never if it was not.
C27_ErrorTextSetAndPrintedOnce ==
    [][/\ pc \in {"Init", "SudoAcquired", "Selecting"} => ERROR_TEXT.isNone
       /\ ~ERROR_TEXT.isNone => ERROR_TEXT' = ERROR_TEXT
       /\ (ERROR_TEXT.isNone /\ ~ERROR_TEXT'.isNone)
             => (FailureRecorded' \/ exc.type = "Exception")
       /\ ErrorTextPrints(stdout') # ErrorTextPrints(stdout)
             => /\ pc = "MainHandlers" /\ pc' = "Exited"
                /\ frontend = "curses" => Restored(term)
       /\ ErrorTextPrints(stdout') =
             (IF pc' = "Exited" /\ ~ERROR_TEXT'.isNone THEN 1 ELSE 0)]_vars

\* C28: no draw thread exists before the first run_step call, in particular
\* none during selection; the first run_step call of the curses frontend
\* starts one, no later call starts another, the plain frontend starts none;
\* so at most one repaint loop is ever active beside the main flow.
C28_OneRepaintLoop ==
    [][/\ threads' \in {0, 1}
       /\ pc' \in {"Init", "SudoAcquired", "Selecting"}
             => (threads' = 0 /\ draw_pc' = "none" /\ ~running')
       /\ threads' # threads
             => /\ frontend = "curses" /\ pc = "InStep" /\ pc' = "InScope"
                /\ nscopes = 0 /\ nscopes' = 1
                /\ threads = 0 /\ threads' = 1 /\ draw_pc = "none"
       /\ threads' = (IF frontend' = "curses" /\ nscopes' >= 1 THEN 1 ELSE 0)
       /\ draw_pc' # "none" => threads' = 1]_vars

\* the curses frontend has entered its third scope with one draw thread, which
\* is painting
C28_Witness ==
    /\ frontend = "curses" /\ nscopes >= 3 /\ threads = 1 /\ draw_pc = "paint"
    /\ painted # <<>>

====
